---------------------------- MODULE Spec2Model ----------------------------
(***************************************************************************)
(* Queueless India (src/app.py): wait-time estimation from historical      *)
(* baselines and crowd-sourced live signals, and the rate-limited          *)
(* check-in.  The Streamlit script is re-run top to bottom on every        *)
(* interaction; one script run is one action of this model.                *)
(*                                                                         *)
(* Python's None is the empty tuple <<>>; a present value v is <<v>>.      *)
(* Time is counted in whole minutes of the UTC clock.                      *)
(***************************************************************************)
EXTENDS Integers, Sequences, FiniteSets, TLC

VARIABLES
    baseline_wait_times,  \* table baseline_wait_times of the store (read-only)
    live_signals,         \* table live_signals of the store, in insertion order
    last_signal_time,     \* st.session_state.last_signal_time, per session
    today,                \* datetime.now().weekday()
    now,                  \* the clock reading of the latest script run
    page,                 \* what the running script computed and rendered
    call                  \* the latest direct call of a helper, with its result

vars == <<baseline_wait_times, live_signals, last_signal_time, today, now,
          page, call>>

---------------------------------------------------------------------------
(* Bounds of the model *)

MaxSignals == 3       \* rows of live_signals after which no button is pressed
MaxCheckIns == 2      \* the same, in the check-in scenarios
MaxRecords == 3       \* rows of baseline_wait_times in the drawn tables
MaxBaseline == 100    \* largest baseline handed to calculate_range directly
MaxCount == 5         \* largest count handed to the classifiers directly

(* Program constants *)

WINDOW_MINUTES == 45
COOLDOWN_MINUTES == 5
SCAN_FIRST_HOUR == 9
SCAN_END_HOUR == 17

None == <<>>
Some(v) == <<v>>

Sessions == {"u1", "u2"}
Offices == {1, 2}
\* day_map: Monday = 0 .. Sunday = 6
Days == 0 .. 6

\* the days the drawn tables and requests use
DaySample == {d \in Days : d <= 2}

\* the clock readings at which the script runs
EstimateInstants == {0, 6, 12, 52}
CheckInInstants == {0, 4, 5, 6, 50, 52}

time_slots ==
    << "09:00-10:00", "10:00-11:00", "11:00-12:00",
       "12:00-13:00", "14:00-15:00",
       "15:00-16:00", "16:00-17:00" >>

\* the slots the requests select: an exact row, a zero row, a slot known on
\* other days only, a slot with no row
RequestSlots == {time_slots[i] : i \in 1 .. 4}

\* f"{h:02d}"
Pad2(h) == IF h < 10 THEN "0" \o ToString(h) ELSE ToString(h)

\* f"{h:02d}:00-{h+1:02d}:00"
SlotLabel(h) == Pad2(h) \o ":00-" \o Pad2(h + 1) \o ":00"

---------------------------------------------------------------------------
(* The baseline resolver *)

RECURSIVE SumWait(_)
SumWait(rows) ==
    IF rows = {} THEN 0
    ELSE LET r == CHOOSE x \in rows : TRUE
         IN  r.avg_wait_minutes + SumWait(rows \ {r})

\* a mean that rounds half up instead of truncating
FallbackMeanRounded(rows) ==
    (2 * SumWait(rows) + Cardinality(rows)) \div (2 * Cardinality(rows))

\* int(sum(vals) / len(vals)): the true quotient of two small non-negative
\* integers, truncated toward zero
FallbackMean(rows) == SumWait(rows) \div Cardinality(rows)

\* a resolver that forgets the day filter of the first query
get_baseline_any_day(office_id, day, slot) ==
    LET fallback == {r \in baseline_wait_times :
                        r.office_id = office_id /\ r.time_slot = slot}
    IN  IF fallback # {} THEN Some(FallbackMean(fallback)) ELSE None

get_baseline(office_id, day, slot) ==
    LET res == {r \in baseline_wait_times :
                    /\ r.office_id = office_id
                    /\ r.day_of_week = day
                    /\ r.time_slot = slot}
        fallback == {r \in baseline_wait_times :
                        r.office_id = office_id /\ r.time_slot = slot}
    IN  IF res # {}
        THEN Some((CHOOSE r \in res : TRUE).avg_wait_minutes)
        ELSE IF fallback # {}
             THEN Some(FallbackMean(fallback))
             ELSE None

---------------------------------------------------------------------------
(* Live signals *)

\* a window that drops the signal that is exactly WINDOW_MINUTES old
get_live_signals_strict(office_id, utcnow) ==
    LET since == utcnow - WINDOW_MINUTES
    IN  SelectSeq(live_signals,
                  LAMBDA s : s.office_id = office_id /\ s.timestamp > since)

get_live_signals(office_id, utcnow) ==
    LET since == utcnow - WINDOW_MINUTES
    IN  SelectSeq(live_signals,
                  LAMBDA s : s.office_id = office_id /\ s.timestamp >= since)

CountType(signals, type) ==
    Len(SelectSeq(signals, LAMBDA s : s.signal_type = type))

---------------------------------------------------------------------------
(* Classification, range, confidence *)

classify_condition_no_normal(entered, completed) ==
    IF entered >= completed THEN "Heavier than usual"
    ELSE "Lighter than usual"

classify_condition(entered, completed) ==
    IF entered > completed THEN "Heavier than usual"
    ELSE IF completed > entered THEN "Lighter than usual"
    ELSE "Normal"

Conditions == {"Heavier than usual", "Lighter than usual", "Normal"}

\* the largest power of two strictly below q (q >= 2)
RECURSIVE Pow2Below(_, _)
Pow2Below(q, p) == IF 2 * p < q THEN Pow2Below(q, 2 * p) ELSE p

(***************************************************************************)
(* int(b * c) for a non-negative integer b and the binary64 literal c      *)
(* nearest to tenths/10.  c = tenths/10 + (err/10) * 2^-53 exactly         *)
(* (err = 8, 4, -4, 2 for 1.1, 1.3, 0.7, 0.9), so the exact product is     *)
(* b*tenths/10 + (b*err/10) * 2^-53 and the float product is that value    *)
(* rounded to the nearest binary64 (ties to even).  When b*tenths is not a *)
(* multiple of 10 the product stays strictly between two integers.  When   *)
(* it is a multiple, the product is the integer q when err >= 0, and when  *)
(* err < 0 it is q or the binary64 just below q: the spacing below q is    *)
(* 2 * Pow2Below(q) units of 2^-53, and the product falls to the lower     *)
(* neighbour iff it lies more than half a spacing under q.                 *)
(***************************************************************************)
IntOfFloatProduct(b, tenths, err) ==
    LET q == (b * tenths) \div 10
        r == (b * tenths) % 10
    IN  IF r # 0 \/ err >= 0 \/ q < 2 THEN q
        ELSE IF b * (0 - err) > 10 * Pow2Below(q, 1) THEN q - 1 ELSE q

calculate_range(baseline, condition) ==
    IF condition = "Heavier than usual"
    THEN <<IntOfFloatProduct(baseline, 11, 8), IntOfFloatProduct(baseline, 13, 4)>>
    ELSE IF condition = "Lighter than usual"
    THEN <<IntOfFloatProduct(baseline, 7, -4), IntOfFloatProduct(baseline, 9, 2)>>
    ELSE <<IntOfFloatProduct(baseline, 9, 2), IntOfFloatProduct(baseline, 11, 8)>>

confidence_level_shifted(signal_count) ==
    IF signal_count > 3 THEN "High"
    ELSE IF signal_count >= 1 THEN "Medium"
    ELSE "Low"

confidence_level(signal_count) ==
    IF signal_count >= 3 THEN "High"
    ELSE IF signal_count >= 1 THEN "Medium"
    ELSE "Low"

---------------------------------------------------------------------------
(* Explanation *)

FALLBACK_TEXT == "This estimate is based on past data and recent visitor activity."

\* what model.generate_content(...).text can do
GeneratorBehaviours == {"text", "empty_text", "raises", "no_text"}

\* lines 26-30, run at the top of every script run: model is None without
\* GEMINI_API_KEY, else a generator with one of the behaviours
Models == {None} \cup {Some(b) : b \in GeneratorBehaviours}

\* model.generate_content(prompt).text: a text, an empty text, an exception of
\* generate_content (timeout, quota), an exception of .text (no candidate)
generate_content_text(behaviour) ==
    CASE behaviour = "text"       -> [raised |-> FALSE, text |-> "generated explanation"]
      [] behaviour = "empty_text" -> [raised |-> FALSE, text |-> ""]
      [] behaviour = "raises"     -> [raised |-> TRUE, text |-> ""]
      [] behaviour = "no_text"    -> [raised |-> TRUE, text |-> ""]

ai_explanation(day, slot, baseline, condition, model) ==
    IF model = None
    THEN [raised |-> FALSE, text |-> FALLBACK_TEXT]
    ELSE LET r == generate_content_text(model[1])
         IN  IF r.raised
             THEN [raised |-> FALSE, text |-> FALLBACK_TEXT]
             ELSE r

---------------------------------------------------------------------------
(* Best slot of the day *)

\* Python truth of a resolver result: None and 0 are both false
Truthy(b) == b # None /\ b[1] # 0

RECURSIVE ScanSlots(_, _, _)
ScanSlots(office_id, h, best) ==
    IF h >= SCAN_END_HOUR THEN best
    ELSE LET slot == SlotLabel(h)
             b == get_baseline(office_id, today, slot)
         IN  ScanSlots(office_id, h + 1,
                       IF Truthy(b) /\ (best = None \/ b[1] < best[2])
                       THEN <<slot, b[1]>>
                       ELSE best)

best_time_today(office_id) == ScanSlots(office_id, SCAN_FIRST_HOUR, None)

---------------------------------------------------------------------------
(* Session throttle *)

can_send_signal_inclusive(s, utcnow) ==
    \/ last_signal_time[s] = None
    \/ utcnow - last_signal_time[s][1] >= COOLDOWN_MINUTES

can_send_signal(s, utcnow) ==
    \/ last_signal_time[s] = None
    \/ utcnow - last_signal_time[s][1] > COOLDOWN_MINUTES

---------------------------------------------------------------------------
(* The script, lines 137-243: one run for one session with the widgets'    *)
(* values (location, office, day, slot), the button pressed if any, the    *)
(* text generator and the clock reading.  The run's results live in page   *)
(* until the run is over; the store and the session state persist.         *)

Locations == {"L1", "L2"}

\* table offices of the store: both offices are in L1, L2 has none
offices == {[id |-> 1, location_id |-> "L1"], [id |-> 2, location_id |-> "L1"]}

OfficesAt(location) == {o.id : o \in {x \in offices : x.location_id = location}}

BlankPage ==
    [kind |-> "none", session |-> "", office |-> 0, day |-> 0, slot |-> "",
     button |-> "none", baseline |-> None, signals |-> <<>>,
     entered |-> 0, completed |-> 0, condition |-> "", low |-> 0, high |-> 0,
     confidence |-> "", sample_size |-> 0, raised |-> FALSE,
     explanation |-> "", best |-> None, steps |-> {}, accepted |-> FALSE,
     model |-> None, rows_before |-> 0,
     last_before |-> [s \in Sessions |-> None]]

\* lines 153-155: no office for the location, the run stops
NoOfficesPage(s) ==
    [BlankPage EXCEPT !.kind = "no_offices", !.session = s,
                      !.rows_before = Len(live_signals),
                      !.last_before = last_signal_time]

\* the run's inputs, and the store and session as the run found them
Request(s, office, day, slot, model, button) ==
    [BlankPage EXCEPT !.session = s, !.office = office, !.day = day,
                      !.slot = slot, !.button = button, !.model = model,
                      !.rows_before = Len(live_signals),
                      !.last_before = last_signal_time]

\* lines 188-243, reached with a baseline
Estimate(s, office, day, slot, model, button, utcnow, baseline) ==
    LET signals == get_live_signals(office, utcnow)
        entered == CountType(signals, "entered")
        completed == CountType(signals, "completed")
        condition == classify_condition(entered, completed)
        range == calculate_range(baseline, condition)
        confidence == confidence_level(Len(signals))
        explained == ai_explanation(day, slot, baseline, condition, model)
        best == best_time_today(office)
        pressed == button # "none"
    IN  [Request(s, office, day, slot, model, button) EXCEPT
            !.kind = "estimate",
            !.baseline = Some(baseline),
            !.signals = signals,
            !.entered = entered,
            !.completed = completed,
            !.condition = condition,
            !.low = range[1],
            !.high = range[2],
            !.confidence = confidence,
            !.sample_size = Len(signals),
            !.raised = explained.raised,
            !.explanation = explained.text,
            !.best = best,
            !.steps = {"get_baseline", "get_live_signals", "classify_condition",
                       "calculate_range", "confidence_level", "ai_explanation",
                       "best_time_today"}
                      \cup (IF pressed THEN {"can_send_signal"} ELSE {}),
            !.accepted = pressed /\ can_send_signal(s, utcnow)]

\* lines 184-186: no baseline, the run stops
NoData(s, office, day, slot, model, button) ==
    [Request(s, office, day, slot, model, button) EXCEPT
        !.kind = "no_data", !.steps = {"get_baseline"}]

\* a run that takes a zero baseline for a missing one
ScriptFalsyStop(s, office, day, slot, model, button, utcnow) ==
    LET baseline == get_baseline(office, day, slot)
    IN  IF ~Truthy(baseline)
        THEN NoData(s, office, day, slot, model, button)
        ELSE Estimate(s, office, day, slot, model, button, utcnow, baseline[1])

Script(s, office, day, slot, model, button, utcnow) ==
    LET baseline == get_baseline(office, day, slot)
    IN  IF baseline = None
        THEN NoData(s, office, day, slot, model, button)
        ELSE Estimate(s, office, day, slot, model, button, utcnow, baseline[1])

\* lines 226-231 / 237-242: the insert (the store stamps the row with the time
\* of insertion) and the session's timestamp
RunScript(s, office, day, slot, model, button, t) ==
    /\ page = BlankPage
    /\ t >= now
    /\ now' = t
    /\ LET p == Script(s, office, day, slot, model, button, t)
       IN  /\ page' = p
           /\ IF p.accepted
              THEN /\ live_signals' =
                        Append(live_signals,
                               [office_id |-> office, signal_type |-> button,
                                user_id |-> s, timestamp |-> t])
                   /\ last_signal_time' = [last_signal_time EXCEPT ![s] = Some(t)]
              ELSE UNCHANGED <<live_signals, last_signal_time>>
    /\ UNCHANGED <<baseline_wait_times, today, call>>

\* lines 137-160: the office is one of the selected location's; no button
PlanVisit(s, location, office, day, slot, model, t) ==
    /\ office \in OfficesAt(location)
    /\ RunScript(s, office, day, slot, model, "none", t)

\* line 224; no button is pressed once live_signals holds cap rows
PressEntered(s, location, office, day, slot, model, t, cap) ==
    /\ office \in OfficesAt(location)
    /\ Len(live_signals) < cap
    /\ RunScript(s, office, day, slot, model, "entered", t)

\* line 235
PressCompleted(s, location, office, day, slot, model, t, cap) ==
    /\ office \in OfficesAt(location)
    /\ Len(live_signals) < cap
    /\ RunScript(s, office, day, slot, model, "completed", t)

OpenEmptyLocation(s, location, t) ==
    /\ page = BlankPage
    /\ OfficesAt(location) = {}
    /\ t >= now
    /\ now' = t
    /\ page' = NoOfficesPage(s)
    /\ UNCHANGED <<baseline_wait_times, live_signals, last_signal_time, today,
                   call>>

\* the run is over: its results are gone, the store and the session stay
EndRun ==
    /\ page # BlankPage
    /\ page' = BlankPage
    /\ UNCHANGED <<baseline_wait_times, live_signals, last_signal_time, today,
                   now, call>>

---------------------------------------------------------------------------
(* The application *)

Row(o, d, sl, w) ==
    [office_id |-> o, day_of_week |-> d, time_slot |-> sl, avg_wait_minutes |-> w]

\* a table with an exact row, a zero row, a slot known on other days only,
\* and slots with no row at all
SampleBaselines ==
    { Row(1, 0, "09:00-10:00", 45), Row(1, 0, "10:00-11:00", 0),
      Row(1, 1, "11:00-12:00", 30), Row(1, 2, "11:00-12:00", 45),
      Row(2, 1, "09:00-10:00", 90), Row(2, 1, "13:00-14:00", 30) }

NoCall == [fn |-> "none", args |-> <<>>, ret |-> <<>>]

Init ==
    /\ baseline_wait_times = SampleBaselines
    /\ live_signals = <<>>
    /\ last_signal_time = [s \in Sessions |-> None]
    /\ today = 0
    /\ now = 0
    /\ page = BlankPage
    /\ call = NoCall

\* the script's runs with the inputs drawn from the given sets
Runs(sessions, instants, days, slots, models, cap) ==
    \E s \in sessions, t \in instants, location \in Locations :
        \/ OpenEmptyLocation(s, location, t)
        \/ \E office \in Offices, day \in days, slot \in slots, model \in models :
                \/ PlanVisit(s, location, office, day, slot, model, t)
                \/ PressEntered(s, location, office, day, slot, model, t, cap)
                \/ PressCompleted(s, location, office, day, slot, model, t, cap)

\* one visitor planning visits and checking in, every generator behaviour
Next ==
    \/ Runs({"u1"}, EstimateInstants, {0}, RequestSlots, Models, MaxSignals)
    \/ EndRun

Spec == Init /\ [][Next]_vars

\* two visitors checking in around the cooldown and the window
NextCheckIn ==
    \/ Runs(Sessions, CheckInInstants, {0}, {time_slots[1]}, {None}, MaxCheckIns)
    \/ EndRun

SpecCheckIn == Init /\ [][NextCheckIn]_vars

---------------------------------------------------------------------------
(* The helpers called directly, on drawn tables and arguments *)

TableSlots == {"09:00-10:00", "10:00-11:00", "11:00-12:00"}
TableDays == {0, 1}
TableWaits == {0, 30, 45}

\* every (day, slot) of office 1, and one slot of office 2
CandidateRows ==
    {Row(1, d, sl, w) : d \in TableDays, sl \in TableSlots, w \in TableWaits}
    \cup {Row(2, 0, "09:00-10:00", w) : w \in TableWaits}

SameKey(a, b) ==
    /\ a.office_id = b.office_id
    /\ a.day_of_week = b.day_of_week
    /\ a.time_slot = b.time_slot

\* the tables of at most n rows, one row per (office, day, slot)
RECURSIVE TablesUpTo(_)
TablesUpTo(n) ==
    IF n = 0 THEN {{}}
    ELSE LET smaller == TablesUpTo(n - 1)
         IN  smaller \cup
             UNION {{T \cup {r} : r \in {c \in CandidateRows :
                                            \A x \in T : ~SameKey(c, x)}} :
                    T \in smaller}

InitBaseline ==
    /\ baseline_wait_times \in TablesUpTo(MaxRecords)
    /\ live_signals = <<>>
    /\ last_signal_time = [s \in Sessions |-> None]
    /\ today \in DaySample
    /\ now = 0
    /\ page = BlankPage
    /\ call = NoCall

Unchanged_but_call ==
    UNCHANGED <<baseline_wait_times, live_signals, last_signal_time, today,
                now, page>>

CallGetBaseline(office_id, day, slot) ==
    /\ call = NoCall
    /\ call' = [fn |-> "get_baseline", args |-> <<office_id, day, slot>>,
                ret |-> get_baseline(office_id, day, slot)]
    /\ Unchanged_but_call

CallBestTimeToday(office_id) ==
    /\ call = NoCall
    /\ call' = [fn |-> "best_time_today", args |-> <<office_id>>,
                ret |-> best_time_today(office_id)]
    /\ Unchanged_but_call

CallCalculateRange(baseline, condition) ==
    /\ call = NoCall
    /\ call' = [fn |-> "calculate_range", args |-> <<baseline, condition>>,
                ret |-> calculate_range(baseline, condition)]
    /\ Unchanged_but_call

Return ==
    /\ call # NoCall
    /\ call' = NoCall
    /\ Unchanged_but_call

NextBaseline ==
    \/ \E office_id \in Offices, day \in DaySample,
          slot \in TableSlots \cup {"12:00-13:00"} :
            CallGetBaseline(office_id, day, slot)
    \/ \E office_id \in Offices : CallBestTimeToday(office_id)
    \/ Return

SpecBaseline == InitBaseline /\ [][NextBaseline]_vars

NextRange ==
    \/ \E baseline \in 0 .. MaxBaseline, condition \in Conditions :
            CallCalculateRange(baseline, condition)
    \/ Return

SpecRange == Init /\ [][NextRange]_vars

---------------------------------------------------------------------------
(* Claims *)

\* the rows of the table for an (office, slot), and those of one day
RowsOfSlot(office_id, slot) ==
    {r \in baseline_wait_times : r.office_id = office_id /\ r.time_slot = slot}

RowsOfDay(office_id, day, slot) ==
    {r \in RowsOfSlot(office_id, slot) : r.day_of_week = day}

\* C1: whenever get_baseline is called for an (office, day, slot) that has an
\* exact row, it returns that row's avg_wait_minutes (0 included), whatever
\* rows the other days hold for the slot.
C1_ExactRecordWins ==
    call.fn = "get_baseline" =>
        \A r \in RowsOfDay(call.args[1], call.args[2], call.args[3]) :
            call.ret = Some(r.avg_wait_minutes)

\* an exact row of value 0 beside another day's non-zero row, and 0 returned
C1_Witness ==
    /\ call.fn = "get_baseline"
    /\ \E r \in RowsOfDay(call.args[1], call.args[2], call.args[3]) :
            r.avg_wait_minutes = 0
    /\ \E r \in RowsOfSlot(call.args[1], call.args[3]) : r.avg_wait_minutes > 0
    /\ call.ret = Some(0)

\* C2: whenever get_baseline is called for an (office, day, slot) without an
\* exact row, it returns None if the (office, slot) has no row on any day,
\* and otherwise the integer m with m * n <= sum < (m + 1) * n, for the n
\* rows of the (office, slot) and the sum of their avg_wait_minutes.
C2_FallbackMeanTruncated ==
    (/\ call.fn = "get_baseline"
     /\ RowsOfDay(call.args[1], call.args[2], call.args[3]) = {}) =>
        LET rows == RowsOfSlot(call.args[1], call.args[3])
            n == Cardinality(rows)
            total == SumWait(rows)
        IN  IF rows = {} THEN call.ret = None
            ELSE /\ Len(call.ret) = 1
                 /\ call.ret[1] * n <= total
                 /\ total < (call.ret[1] + 1) * n

\* rows of 30 and 45 on other days, and 37 returned
C2_Witness ==
    /\ call.fn = "get_baseline"
    /\ RowsOfDay(call.args[1], call.args[2], call.args[3]) = {}
    /\ {r.avg_wait_minutes : r \in RowsOfSlot(call.args[1], call.args[3])} = {30, 45}
    /\ Cardinality(RowsOfSlot(call.args[1], call.args[3])) = 2
    /\ call.ret = Some(37)

\* the independent count of the run's sample: the rows the run found in
\* live_signals, of the page's office, at most WINDOW_MINUTES old
SampleIndexes ==
    {i \in 1 .. page.rows_before :
        /\ live_signals[i].office_id = page.office
        /\ now - live_signals[i].timestamp <= WINDOW_MINUTES}

SampleOfType(type) ==
    Cardinality({i \in SampleIndexes : live_signals[i].signal_type = type})

\* C3: a run renders an estimate iff it resolved a baseline for the requested
\* (office, day, slot); a run that resolved none ends as "no data" after the
\* resolver alone: no other step runs, and nothing is written to live_signals
\* or to the session, whatever button was pressed.
C3_EstimateIffBaseline ==
    /\ page.kind = "estimate" <=>
            /\ "get_baseline" \in page.steps
            /\ get_baseline(page.office, page.day, page.slot) # None
    /\ page.kind = "estimate" =>
            /\ page.baseline = get_baseline(page.office, page.day, page.slot)
            /\ page.condition \in Conditions
            /\ page.confidence \in {"Low", "Medium", "High"}
            /\ {"classify_condition", "calculate_range", "confidence_level",
                "ai_explanation"} \subseteq page.steps
    /\ (/\ "get_baseline" \in page.steps
        /\ get_baseline(page.office, page.day, page.slot) = None) =>
            /\ page.kind = "no_data"
            /\ page.steps = {"get_baseline"}
            /\ ~page.accepted
            /\ Len(live_signals) = page.rows_before
            /\ last_signal_time = page.last_before

\* a button pressed on a slot with no baseline
C3_Witness ==
    /\ page.kind = "no_data"
    /\ page.button = "entered"
    /\ page.rows_before > 0

\* C4: best_time_today returns the earliest of the eight hourly slots
\* 09:00-10:00 .. 16:00-17:00 whose resolved baseline is the minimum over the
\* slots that resolve to a baseline (0 included), with that baseline, and
\* None only if no slot resolves.
C4_BestIsFirstMinimum ==
    call.fn = "best_time_today" =>
        LET hours == SCAN_FIRST_HOUR .. (SCAN_END_HOUR - 1)
            resolved == [h \in hours |->
                            get_baseline(call.args[1], today, SlotLabel(h))]
            have == {h \in hours : resolved[h] # None}
        IN  IF have = {} THEN call.ret = None
            ELSE LET first == CHOOSE h \in have :
                        \A g \in have :
                            \/ resolved[h][1] < resolved[g][1]
                            \/ resolved[h][1] = resolved[g][1] /\ h <= g
                 IN  call.ret = <<SlotLabel(first), resolved[first][1]>>

Floor10(x) == x \div 10

\* C5: calculate_range returns (floor(b*1.1), floor(b*1.3)) for Heavier,
\* (floor(b*0.7), floor(b*0.9)) for Lighter and (floor(b*0.9), floor(b*1.1))
\* for Normal, with 0 <= low <= high.
C5_RangeIsFloorOfProduct ==
    call.fn = "calculate_range" =>
        LET b == call.args[1]
            condition == call.args[2]
            want == IF condition = "Heavier than usual"
                    THEN <<Floor10(b * 11), Floor10(b * 13)>>
                    ELSE IF condition = "Lighter than usual"
                    THEN <<Floor10(b * 7), Floor10(b * 9)>>
                    ELSE <<Floor10(b * 9), Floor10(b * 11)>>
        IN  /\ call.ret = want
            /\ 0 <= call.ret[1]
            /\ call.ret[1] <= call.ret[2]

\* C6: classify_condition is Heavier iff entered > completed, Lighter iff
\* completed > entered, Normal iff they are equal; and the condition a run
\* renders is that of the numbers of "entered" and "completed" signals among
\* the office's signals at most 45 minutes old.
C6_ConditionOfCounts ==
    /\ \A e \in 0 .. MaxCount, c \in 0 .. MaxCount :
            /\ classify_condition(e, c) = "Heavier than usual" <=> e > c
            /\ classify_condition(e, c) = "Lighter than usual" <=> c > e
            /\ classify_condition(e, c) = "Normal" <=> e = c
    /\ page.kind = "estimate" =>
            /\ page.entered = SampleOfType("entered")
            /\ page.completed = SampleOfType("completed")
            /\ page.condition = "Heavier than usual" <=>
                    SampleOfType("entered") > SampleOfType("completed")
            /\ page.condition = "Lighter than usual" <=>
                    SampleOfType("completed") > SampleOfType("entered")
            /\ page.condition = "Normal" <=>
                    SampleOfType("entered") = SampleOfType("completed")

\* one signal of each type in the window, an older one out of it: Normal
C6_Witness ==
    /\ page.kind = "estimate"
    /\ page.entered = 1
    /\ page.completed = 1
    /\ page.rows_before = 3
    /\ page.condition = "Normal"

ConfidenceRank(c) == CASE c = "Low" -> 0 [] c = "Medium" -> 1 [] c = "High" -> 2

\* C7: confidence_level(n) is Low iff n = 0, Medium iff n is 1 or 2, High iff
\* n >= 3, and never decreases as n grows; the confidence a run renders is
\* that of the number of the office's signals at most 45 minutes old, which
\* is the sample size it reports.
C7_ConfidenceOfSampleSize ==
    /\ \A n \in 0 .. MaxCount :
            /\ confidence_level(n) = "Low" <=> n = 0
            /\ confidence_level(n) = "Medium" <=> n \in {1, 2}
            /\ confidence_level(n) = "High" <=> n >= 3
            /\ \A m \in 0 .. n :
                    ConfidenceRank(confidence_level(m))
                        <= ConfidenceRank(confidence_level(n))
    /\ page.kind = "estimate" =>
            /\ page.sample_size = Cardinality(SampleIndexes)
            /\ page.confidence = "Low" <=> Cardinality(SampleIndexes) = 0
            /\ page.confidence = "Medium" <=> Cardinality(SampleIndexes) \in {1, 2}
            /\ page.confidence = "High" <=> Cardinality(SampleIndexes) >= 3

\* three signals in the window
C7_Witness ==
    /\ page.kind = "estimate"
    /\ page.sample_size = 3
    /\ page.confidence = "High"

AppendOnly ==
    \/ live_signals' = live_signals
    \/ /\ Len(live_signals') = Len(live_signals) + 1
       /\ SubSeq(live_signals', 1, Len(live_signals)) = live_signals

WindowExact ==
    \A o \in Offices :
        LET sample == get_live_signals(o, now)
            inside == {i \in DOMAIN live_signals :
                          /\ live_signals[i].office_id = o
                          /\ now - live_signals[i].timestamp <= WINDOW_MINUTES}
        IN  /\ Len(sample) = Cardinality(inside)
            /\ \A i \in DOMAIN live_signals :
                    (\E j \in DOMAIN sample : sample[j] = live_signals[i])
                        <=> i \in inside

\* C8: at every clock reading, get_live_signals(office) is exactly the rows
\* of live_signals of that office that are at most 45 minutes old; and every
\* step leaves the rows of live_signals as they are, adding at most one at
\* the end.
C8_WindowAndAppendOnly == []WindowExact /\ [][AppendOnly]_vars

\* one office with a signal 44 minutes old, in the sample, and one 46 minutes
\* old, out of it
C8_Witness ==
    \E o \in Offices :
        /\ \E i \in DOMAIN live_signals :
                /\ live_signals[i].office_id = o
                /\ now - live_signals[i].timestamp = 44
        /\ \E i \in DOMAIN live_signals :
                /\ live_signals[i].office_id = o
                /\ now - live_signals[i].timestamp = 46
        /\ Len(get_live_signals(o, now)) = 1

\* a run in which a check-in button is pressed and reached
Attempt == page = BlankPage /\ page'.kind = "estimate" /\ page'.button # "none"

\* C9: a check-in attempt is accepted iff the session's last_signal_time is
\* unset or more than 5 minutes before the attempt; an accepted attempt
\* appends exactly one signal (the office, the button's type, the session's
\* user) and sets the session's last_signal_time to the time of the attempt;
\* a rejected one changes neither live_signals nor any last_signal_time.
C9_Throttle ==
    [][Attempt =>
        LET s == page'.session
            allowed == \/ last_signal_time[s] = None
                       \/ now' - last_signal_time[s][1] > COOLDOWN_MINUTES
        IN  /\ page'.accepted <=> allowed
            /\ allowed =>
                /\ live_signals' =
                        Append(live_signals,
                               [office_id |-> page'.office,
                                signal_type |-> page'.button,
                                user_id |-> s, timestamp |-> now'])
                /\ last_signal_time' = [last_signal_time EXCEPT ![s] = Some(now')]
            /\ ~allowed => UNCHANGED <<live_signals, last_signal_time>>]_vars

\* an attempt accepted 6 minutes after the session's previous check-in
C9_Witness ==
    /\ page.kind = "estimate"
    /\ page.accepted
    /\ page.last_before[page.session] # None
    /\ now - page.last_before[page.session][1] = 6

\* C10: ai_explanation never raises and returns a non-empty text, which is the
\* fallback sentence whenever the generator is not configured, raises, or
\* returns a malformed or empty response.
C10_ExplanationNeverEmpty ==
    page.kind = "estimate" =>
        /\ ~page.raised
        /\ page.explanation # ""
        /\ page.model \in {None, Some("raises"), Some("no_text"), Some("empty_text")}
                => page.explanation = FALLBACK_TEXT

=============================================================================
